---- MODULE Spec2Model ----
\* A state-machine model of SceneManager.cpp (texture registry, material
\* registry, transform composer, shader state binder, scene preparer and
\* scene renderer), together with the OpenGL / stb_image / ShaderManager
\* state those methods act on.
\*
\* Numbers: colour components are kept in tenths (0.6f is 6), light vectors
\* in hundredths, shininess and transform inputs in whole units.
EXTENDS Integers, Sequences, FiniteSets, TLC

VARIABLES
    m_pShaderManager,   \* "NULL" or "shader": the constructor's argument
    m_loadedTextures,   \* number of registered textures
    m_textureIDs,       \* [0..m_loadedTextures-1 -> [ID, tag]]
    m_objectMaterials,  \* sequence of OBJECT_MATERIAL
    m_basicMeshes,      \* set of mesh kinds loaded into the ShapeMeshes object
    uniforms,           \* uniform name -> value held by the shader program
    glTextures,         \* live texture name -> texture object state
    glActiveTexture,    \* index of the active texture unit
    glBoundTexture2D,   \* texture unit -> name bound to GL_TEXTURE_2D
    imageBuffers,       \* decoded stb_image buffers not yet freed
    lastCall,           \* the last operation called: [op, args, ret]
    crashed,            \* a NULL shader manager was dereferenced
    pc                  \* position inside PrepareScene / RenderScene

vars == << m_pShaderManager, m_loadedTextures, m_textureIDs, m_objectMaterials,
           m_basicMeshes, uniforms, glTextures, glActiveTexture,
           glBoundTexture2D, imageBuffers, lastCall, crashed, pc >>

-----------------------------------------------------------------------------
\* Bounds of the model

\* most textures the callers register
MaxTextures == 2
\* most texture names glGenTextures hands out in one run
MaxNames == 3
\* most DefineObjectMaterials runs
MaxMaterialRuns == 1

-----------------------------------------------------------------------------
\* Program constants and input sets

NULL == "NULL"

\* the texture units of the backend ("There are up to 16 slots")
NumTextureUnits == 16

\* loaded-texture count of a fresh SceneManager (set in SceneManager.h)
InitLoadedTextures == 0

g_ModelName == "model"
g_ColorValueName == "objectColor"
g_TextureValueName == "objectTexture"
g_UseTextureName == "bUseTexture"
g_UseLightingName == "bUseLighting"

\* tags the callers register textures under / look up
TextureTags == {"wood", "fabric"}
LookupTags == {"wood", "fabric", "glass"}

\* arguments the callers pass to SetTransformations
TransformInputs ==
    { [scaleXYZ |-> <<1, 1, 1>>, XrotationDegrees |-> 0, YrotationDegrees |-> 0,
       ZrotationDegrees |-> 0, positionXYZ |-> <<0, 0, 0>>],
      [scaleXYZ |-> <<2, 1, 1>>, XrotationDegrees |-> 0, YrotationDegrees |-> 90,
       ZrotationDegrees |-> 0, positionXYZ |-> <<1, 0, 0>>],
      [scaleXYZ |-> <<1, 2, 3>>, XrotationDegrees |-> 90, YrotationDegrees |-> 180,
       ZrotationDegrees |-> -90, positionXYZ |-> <<0, 1, 2>>] }

\* arguments the callers pass to SetShaderColor and SetTextureUVScale
ColorInputs == { <<7, 7, 7, 10>>, <<2, 4, 6, 10>> }
UVInputs == { <<1, 1>> }

\* what stbi_load can give: no image, or an image with 1..4 channels
DecodeResults ==
    {[image |-> FALSE, colorChannels |-> 0]} \cup
    {[image |-> TRUE, colorChannels |-> c] : c \in 1..4}

\* values an OBJECT_MATERIAL variable can hold before it is assigned
IndeterminateMaterials ==
    { [tag |-> "", diffuseColor |-> <<0, 0, 0>>,
       specularColor |-> <<0, 0, 0>>, shininess |-> 0],
      [tag |-> "", diffuseColor |-> <<7, 7, 7>>,
       specularColor |-> <<3, 3, 3>>, shininess |-> 77] }

-----------------------------------------------------------------------------
\* OpenGL texture state

\* glGenTextures: a name that is not in use
glGenTextures(textures) ==
    CHOOSE n \in 1..(Cardinality(DOMAIN textures) + 1) :
        /\ n \notin DOMAIN textures
        /\ \A k \in 1..(n - 1) : k \in DOMAIN textures

\* a name glGenTextures returned that was never bound
GeneratedTexture ==
    [wrap |-> "default", filter |-> "default",
     internalFormat |-> "none", mipmaps |-> FALSE]

\* glActiveTextureSet that never switches the unit
glActiveTextureKeep(active, i) == active

\* glActiveTexture(GL_TEXTURE0 + i): GL_INVALID_ENUM leaves the unit alone
glActiveTextureSet(active, i) ==
    IF i \in 0..(NumTextureUnits - 1) THEN i ELSE active

-----------------------------------------------------------------------------
\* The state after construction

InitUniforms ==
    [n \in {g_ModelName, g_ColorValueName, g_TextureValueName,
            g_UseTextureName, g_UseLightingName, "UVscale",
            "material.diffuseColor", "material.specularColor",
            "material.shininess", "lights"} |->
        CASE n = g_ModelName -> << <<0, 0, 0, 0>>, <<0, 0, 0, 0>>,
                                   <<0, 0, 0, 0>>, <<0, 0, 0, 0>> >>
          [] n = g_ColorValueName -> <<0, 0, 0, 0>>
          [] n = g_TextureValueName -> 0
          [] n = g_UseTextureName -> FALSE
          [] n = g_UseLightingName -> FALSE
          [] n = "UVscale" -> <<0, 0>>
          [] n = "material.diffuseColor" -> <<0, 0, 0>>
          [] n = "material.specularColor" -> <<0, 0, 0>>
          [] n = "material.shininess" -> 0
          [] n = "lights" -> << >>]

Init ==
    /\ m_pShaderManager \in {NULL, "shader"}
    /\ m_loadedTextures = InitLoadedTextures
    /\ m_textureIDs = << >>
    /\ m_objectMaterials = << >>
    /\ m_basicMeshes = {}
    /\ uniforms = InitUniforms
    /\ glTextures = << >>
    /\ glActiveTexture = 0
    /\ glBoundTexture2D = [u \in 0..(NumTextureUnits - 1) |-> 0]
    /\ imageBuffers = 0
    /\ lastCall = [op |-> "SceneManager", args |-> << >>, ret |-> "void"]
    /\ crashed = FALSE
    /\ pc = [fn |-> "idle", at |-> 0]

-----------------------------------------------------------------------------
\* Texture registry

\* the variables no texture-registry operation writes
notTextureVars == << m_pShaderManager, m_objectMaterials, m_basicMeshes,
                     uniforms, crashed >>

\* RegisterTexture storing the entry in slot 0 instead of slot n
RegisterTextureAtZero(ids, n, textureID, tag) ==
    [i \in 0..n |-> IF i = 0 THEN [ID |-> textureID, tag |-> tag]
                    ELSE IF i = n THEN [ID |-> 0, tag |-> ""] ELSE ids[i]]

RegisterTexture(ids, n, textureID, tag) ==
    [i \in 0..n |-> IF i = n THEN [ID |-> textureID, tag |-> tag] ELSE ids[i]]

\* SupportedChannels without the rejection of other channel counts
SupportedChannelsAny(colorChannels) == colorChannels \in 1..4

\* the channel counts CreateGLTexture uploads
SupportedChannels(colorChannels) == colorChannels \in {3, 4}

CreateGLTexture(tag, img) ==
    LET textureID == glGenTextures(glTextures)
        ok == SupportedChannels(img.colorChannels)
    IN
    /\ IF img.image
       THEN IF ok
            THEN /\ glTextures' =
                       [n \in DOMAIN glTextures \cup {textureID} |->
                          IF n = textureID
                          THEN [wrap |-> "GL_REPEAT", filter |-> "GL_LINEAR",
                                internalFormat |->
                                  IF img.colorChannels = 3 THEN "GL_RGB8"
                                                           ELSE "GL_RGBA8",
                                mipmaps |-> TRUE]
                          ELSE glTextures[n]]
                 /\ glBoundTexture2D' =
                       [glBoundTexture2D EXCEPT ![glActiveTexture] = 0]
                 /\ imageBuffers' = imageBuffers
                 /\ m_textureIDs' = RegisterTexture(m_textureIDs,
                                        m_loadedTextures, textureID, tag)
                 /\ m_loadedTextures' = m_loadedTextures + 1
            ELSE /\ glTextures' =
                       [n \in DOMAIN glTextures \cup {textureID} |->
                          IF n = textureID
                          THEN [wrap |-> "GL_REPEAT", filter |-> "GL_LINEAR",
                                internalFormat |-> "none", mipmaps |-> FALSE]
                          ELSE glTextures[n]]
                 /\ glBoundTexture2D' =
                       [glBoundTexture2D EXCEPT ![glActiveTexture] = textureID]
                 /\ imageBuffers' = imageBuffers + 1
                 /\ UNCHANGED << m_textureIDs, m_loadedTextures >>
       ELSE UNCHANGED << glTextures, glBoundTexture2D, imageBuffers,
                         m_textureIDs, m_loadedTextures >>
    /\ lastCall' = [op |-> "CreateGLTexture", args |-> <<tag, img>>,
                    ret |-> (img.image /\ ok)]
    /\ UNCHANGED << glActiveTexture >>
    /\ UNCHANGED notTextureVars

\* the loop of BindGLTextures from index i on: [active, bound]
RECURSIVE BindLoop(_, _, _)
BindLoop(i, active, bound) ==
    IF i < m_loadedTextures
    THEN LET a == glActiveTextureSet(active, i)
         IN BindLoop(i + 1, a, [bound EXCEPT ![a] = m_textureIDs[i].ID])
    ELSE [active |-> active, bound |-> bound]

BindGLTextures ==
    LET r == BindLoop(0, glActiveTexture, glBoundTexture2D)
    IN
    /\ glActiveTexture' = r.active
    /\ glBoundTexture2D' = r.bound
    /\ lastCall' = [op |-> "BindGLTextures", args |-> << >>, ret |-> "void"]
    /\ UNCHANGED << glTextures, imageBuffers, m_textureIDs, m_loadedTextures >>
    /\ UNCHANGED notTextureVars

\* the loop of DestroyGLTextures from index i on: [ids, textures]
RECURSIVE DestroyLoop(_, _, _)
DestroyLoop(i, ids, textures) ==
    IF i < m_loadedTextures
    THEN LET name == glGenTextures(textures)
         IN DestroyLoop(i + 1,
                [ids EXCEPT ![i].ID = name],
                [n \in DOMAIN textures \cup {name} |->
                    IF n = name THEN GeneratedTexture ELSE textures[n]])
    ELSE [ids |-> ids, textures |-> textures]

DestroyGLTextures ==
    LET r == DestroyLoop(0, m_textureIDs, glTextures)
    IN
    /\ m_textureIDs' = r.ids
    /\ glTextures' = r.textures
    /\ lastCall' = [op |-> "DestroyGLTextures", args |-> << >>, ret |-> "void"]
    /\ UNCHANGED << glActiveTexture, glBoundTexture2D, imageBuffers,
                    m_loadedTextures >>
    /\ UNCHANGED notTextureVars

\* the loop of FindTextureID from index on
RECURSIVE FindTextureIDLoop(_, _)
FindTextureIDLoop(index, tag) ==
    IF index < m_loadedTextures
    THEN IF m_textureIDs[index].tag = tag
         THEN m_textureIDs[index].ID
         ELSE FindTextureIDLoop(index + 1, tag)
    ELSE -1

\* FindTextureID starting its scan at index 1
FindTextureIDFromOne(tag) == FindTextureIDLoop(1, tag)

FindTextureID(tag) == FindTextureIDLoop(0, tag)

\* the loop of FindTextureSlot from index on
RECURSIVE FindTextureSlotLoop(_, _)
FindTextureSlotLoop(index, tag) ==
    IF index < m_loadedTextures
    THEN IF m_textureIDs[index].tag = tag
         THEN index
         ELSE FindTextureSlotLoop(index + 1, tag)
    ELSE -1

\* FindTextureSlot counting slots from one
FindTextureSlotFromOne(tag) ==
    LET slot == FindTextureSlotLoop(0, tag)
    IN IF slot >= 0 THEN slot + 1 ELSE slot

FindTextureSlot(tag) == FindTextureSlotLoop(0, tag)

CallFindTextureID(tag) ==
    /\ lastCall' = [op |-> "FindTextureID", args |-> <<tag>>,
                    ret |-> FindTextureID(tag)]
    /\ UNCHANGED << glTextures, glActiveTexture, glBoundTexture2D,
                    imageBuffers, m_textureIDs, m_loadedTextures >>
    /\ UNCHANGED notTextureVars

CallFindTextureSlot(tag) ==
    /\ lastCall' = [op |-> "FindTextureSlot", args |-> <<tag>>,
                    ret |-> FindTextureSlot(tag)]
    /\ UNCHANGED << glTextures, glActiveTexture, glBoundTexture2D,
                    imageBuffers, m_textureIDs, m_loadedTextures >>
    /\ UNCHANGED notTextureVars

-----------------------------------------------------------------------------
\* Material registry

\* the variables no material-registry operation writes
notMaterialVars == << m_pShaderManager, m_loadedTextures, m_textureIDs,
                      m_basicMeshes, uniforms, glTextures, glActiveTexture,
                      glBoundTexture2D, imageBuffers, crashed >>

ObjectMaterial(tag, diffuse, specular, shininess) ==
    [tag |-> tag, diffuseColor |-> diffuse, specularColor |-> specular,
     shininess |-> shininess]

\* DefinedMaterials with the pillow material pushed under the tag "white"
DefinedMaterialsRepeatedTag ==
    << ObjectMaterial("wood", <<6, 3, 1>>, <<2, 2, 2>>, 10),
       ObjectMaterial("fabric", <<8, 5, 5>>, <<1, 1, 1>>, 5),
       ObjectMaterial("white", <<10, 10, 10>>, <<5, 5, 5>>, 20),
       ObjectMaterial("floor", <<4, 4, 4>>, <<2, 2, 2>>, 15),
       ObjectMaterial("white", <<10, 10, 10>>, <<5, 5, 5>>, 25),
       ObjectMaterial("metal", <<6, 6, 6>>, <<9, 9, 9>>, 128),
       ObjectMaterial("vinyl", <<2, 2, 2>>, <<7, 7, 7>>, 50),
       ObjectMaterial("turntable", <<5, 5, 5>>, <<8, 8, 8>>, 30),
       ObjectMaterial("polka", <<10, 10, 10>>, <<5, 5, 5>>, 10),
       ObjectMaterial("picture", <<10, 10, 10>>, <<5, 5, 5>>, 10) >>

\* the ten push_back calls of DefineObjectMaterials, in order
DefinedMaterials ==
    << ObjectMaterial("wood", <<6, 3, 1>>, <<2, 2, 2>>, 10),
       ObjectMaterial("fabric", <<8, 5, 5>>, <<1, 1, 1>>, 5),
       ObjectMaterial("white", <<10, 10, 10>>, <<5, 5, 5>>, 20),
       ObjectMaterial("floor", <<4, 4, 4>>, <<2, 2, 2>>, 15),
       ObjectMaterial("pillow", <<10, 10, 10>>, <<5, 5, 5>>, 25),
       ObjectMaterial("metal", <<6, 6, 6>>, <<9, 9, 9>>, 128),
       ObjectMaterial("vinyl", <<2, 2, 2>>, <<7, 7, 7>>, 50),
       ObjectMaterial("turntable", <<5, 5, 5>>, <<8, 8, 8>>, 30),
       ObjectMaterial("polka", <<10, 10, 10>>, <<5, 5, 5>>, 10),
       ObjectMaterial("picture", <<10, 10, 10>>, <<5, 5, 5>>, 10) >>

DefineObjectMaterials ==
    /\ m_objectMaterials' = m_objectMaterials \o DefinedMaterials
    /\ lastCall' = [op |-> "DefineObjectMaterials", args |-> << >>,
                    ret |-> "void"]
    /\ UNCHANGED notMaterialVars

\* the loop of FindMaterial from index on (vector indices start at 0)
RECURSIVE FindMaterialLoop(_, _, _)
FindMaterialLoop(index, tag, material) ==
    IF index < Len(m_objectMaterials)
    THEN IF m_objectMaterials[index + 1].tag = tag
         THEN [material EXCEPT
                 !.diffuseColor = m_objectMaterials[index + 1].diffuseColor,
                 !.specularColor = m_objectMaterials[index + 1].specularColor,
                 !.shininess = m_objectMaterials[index + 1].shininess]
         ELSE FindMaterialLoop(index + 1, tag, material)
    ELSE material

\* FindMaterial returning bFound instead of true
FindMaterialFound(tag, material) ==
    [ret |-> \E k \in 1..Len(m_objectMaterials) : m_objectMaterials[k].tag = tag,
     material |-> FindMaterialLoop(0, tag, material)]

\* FindMaterial(tag, material): the return value and material afterwards
FindMaterial(tag, material) ==
    IF Len(m_objectMaterials) = 0
    THEN [ret |-> FALSE, material |-> material]
    ELSE [ret |-> TRUE, material |-> FindMaterialLoop(0, tag, material)]

CallFindMaterial(tag, material) ==
    /\ lastCall' = [op |-> "FindMaterial", args |-> <<tag, material>>,
                    ret |-> FindMaterial(tag, material)]
    /\ UNCHANGED m_objectMaterials
    /\ UNCHANGED notMaterialVars

-----------------------------------------------------------------------------
\* Transform composer

\* operator* of glm::mat4: entry (i, j) and row i of the product A * B
MatEntry(A, B, i, j) ==
    A[i][1] * B[1][j] + A[i][2] * B[2][j] + A[i][3] * B[3][j] + A[i][4] * B[4][j]

MatRow(A, B, i) ==
    << MatEntry(A, B, i, 1), MatEntry(A, B, i, 2),
       MatEntry(A, B, i, 3), MatEntry(A, B, i, 4) >>

MatMul(A, B) ==
    << MatRow(A, B, 1), MatRow(A, B, 2), MatRow(A, B, 3), MatRow(A, B, 4) >>

\* cos and sin of glm::radians(degrees), for the right angles
CosDeg(degrees) ==
    CASE degrees % 360 = 0 -> 1
      [] degrees % 360 = 90 -> 0
      [] degrees % 360 = 180 -> -1
      [] degrees % 360 = 270 -> 0

SinDeg(degrees) ==
    CASE degrees % 360 = 0 -> 0
      [] degrees % 360 = 90 -> 1
      [] degrees % 360 = 180 -> 0
      [] degrees % 360 = 270 -> -1

\* glm::scale(v)
ScaleMatrix(v) ==
    << <<v[1], 0, 0, 0>>, <<0, v[2], 0, 0>>, <<0, 0, v[3], 0>>, <<0, 0, 0, 1>> >>

\* glm::translate(v)
TranslationMatrix(v) ==
    << <<1, 0, 0, v[1]>>, <<0, 1, 0, v[2]>>, <<0, 0, 1, v[3]>>, <<0, 0, 0, 1>> >>

\* glm::rotate(glm::radians(degrees), axis) for the three coordinate axes
RotationXMatrix(degrees) ==
    LET c == CosDeg(degrees)  s == SinDeg(degrees)
    IN << <<1, 0, 0, 0>>, <<0, c, -s, 0>>, <<0, s, c, 0>>, <<0, 0, 0, 1>> >>

RotationYMatrix(degrees) ==
    LET c == CosDeg(degrees)  s == SinDeg(degrees)
    IN << <<c, 0, s, 0>>, <<0, 1, 0, 0>>, <<-s, 0, c, 0>>, <<0, 0, 0, 1>> >>

RotationZMatrix(degrees) ==
    LET c == CosDeg(degrees)  s == SinDeg(degrees)
    IN << <<c, -s, 0, 0>>, <<s, c, 0, 0>>, <<0, 0, 1, 0>>, <<0, 0, 0, 1>> >>

\* ModelView with the factors multiplied in the opposite order
ModelViewReversed(scaleXYZ, XrotationDegrees, YrotationDegrees, ZrotationDegrees, positionXYZ) ==
    MatMul(ScaleMatrix(scaleXYZ),
      MatMul(RotationXMatrix(XrotationDegrees),
        MatMul(RotationYMatrix(YrotationDegrees),
          MatMul(RotationZMatrix(ZrotationDegrees),
                 TranslationMatrix(positionXYZ)))))

\* the modelView matrix SetTransformations computes
ModelView(scaleXYZ, XrotationDegrees, YrotationDegrees, ZrotationDegrees, positionXYZ) ==
    MatMul(TranslationMatrix(positionXYZ),
      MatMul(RotationZMatrix(ZrotationDegrees),
        MatMul(RotationYMatrix(YrotationDegrees),
          MatMul(RotationXMatrix(XrotationDegrees),
                 ScaleMatrix(scaleXYZ)))))

-----------------------------------------------------------------------------
\* Shader state binder

\* the variables no binder operation writes
notBinderVars == << m_pShaderManager, m_loadedTextures, m_textureIDs,
                    m_objectMaterials, m_basicMeshes, glTextures,
                    glActiveTexture, glBoundTexture2D, imageBuffers >>

SetTransformations(t) ==
    LET modelView == ModelView(t.scaleXYZ, t.XrotationDegrees,
                       t.YrotationDegrees, t.ZrotationDegrees, t.positionXYZ)
    IN
    /\ IF NULL # m_pShaderManager
       THEN uniforms' = [uniforms EXCEPT ![g_ModelName] = modelView]
       ELSE UNCHANGED uniforms
    /\ lastCall' = [op |-> "SetTransformations", args |-> <<t>>, ret |-> "void"]
    /\ UNCHANGED crashed
    /\ UNCHANGED notBinderVars

\* ShaderColorWrites without the write of bUseTexture
ShaderColorWritesColorOnly(u, currentColor) ==
    [u EXCEPT ![g_ColorValueName] = currentColor]

\* the uniform writes of SetShaderColor
ShaderColorWrites(u, currentColor) ==
    [u EXCEPT ![g_UseTextureName] = FALSE, ![g_ColorValueName] = currentColor]

SetShaderColor(currentColor) ==
    /\ IF NULL # m_pShaderManager
       THEN uniforms' = ShaderColorWrites(uniforms, currentColor)
       ELSE UNCHANGED uniforms
    /\ lastCall' = [op |-> "SetShaderColor", args |-> <<currentColor>>,
                    ret |-> "void"]
    /\ UNCHANGED crashed
    /\ UNCHANGED notBinderVars

\* ShaderTextureWrites that skips both writes for an unresolved tag
ShaderTextureWritesIfFound(u, textureID) ==
    IF textureID >= 0
    THEN [u EXCEPT ![g_UseTextureName] = TRUE, ![g_TextureValueName] = textureID]
    ELSE u

\* the uniform writes of SetShaderTexture
ShaderTextureWrites(u, textureID) ==
    [u EXCEPT ![g_UseTextureName] = TRUE, ![g_TextureValueName] = textureID]

SetShaderTexture(textureTag) ==
    /\ IF NULL # m_pShaderManager
       THEN uniforms' = ShaderTextureWrites(uniforms, FindTextureSlot(textureTag))
       ELSE UNCHANGED uniforms
    /\ lastCall' = [op |-> "SetShaderTexture", args |-> <<textureTag>>,
                    ret |-> "void"]
    /\ UNCHANGED crashed
    /\ UNCHANGED notBinderVars

SetTextureUVScale(uv) ==
    /\ IF NULL # m_pShaderManager
       THEN uniforms' = [uniforms EXCEPT !["UVscale"] = uv]
       ELSE UNCHANGED uniforms
    /\ lastCall' = [op |-> "SetTextureUVScale", args |-> <<uv>>, ret |-> "void"]
    /\ UNCHANGED crashed
    /\ UNCHANGED notBinderVars

\* ShaderMaterialWrites with the two colours exchanged
ShaderMaterialWritesSwapped(u, material) ==
    [u EXCEPT !["material.diffuseColor"] = material.specularColor,
              !["material.specularColor"] = material.diffuseColor,
              !["material.shininess"] = material.shininess]

\* the uniform writes of SetShaderMaterial
ShaderMaterialWrites(u, material) ==
    [u EXCEPT !["material.diffuseColor"] = material.diffuseColor,
              !["material.specularColor"] = material.specularColor,
              !["material.shininess"] = material.shininess]

\* the local OBJECT_MATERIAL of SetShaderMaterial is declared without a value
SetShaderMaterial(materialTag) ==
    /\ IF Len(m_objectMaterials) > 0
       THEN \E material \in IndeterminateMaterials :
              LET r == FindMaterial(materialTag, material)
              IN IF r.ret = TRUE
                 THEN IF NULL # m_pShaderManager
                      THEN /\ uniforms' = ShaderMaterialWrites(uniforms,
                                                               r.material)
                           /\ UNCHANGED crashed
                      ELSE /\ crashed' = TRUE
                           /\ UNCHANGED uniforms
                 ELSE UNCHANGED << uniforms, crashed >>
       ELSE UNCHANGED << uniforms, crashed >>
    /\ lastCall' = [op |-> "SetShaderMaterial", args |-> <<materialTag>>,
                    ret |-> "void"]
    /\ UNCHANGED notBinderVars

-----------------------------------------------------------------------------
\* The registries under calls in any order

\* the model's bounds, as guards on the calls
CanCreate(img) ==
    /\ img.image => Cardinality(DOMAIN glTextures) < MaxNames
    /\ (img.image /\ SupportedChannels(img.colorChannels)) =>
           m_loadedTextures < MaxTextures

CanDestroy == Cardinality(DOMAIN glTextures) + m_loadedTextures <= MaxNames

CanDefine == Len(m_objectMaterials) < MaxMaterialRuns * Len(DefinedMaterials)

\* a call from outside PrepareScene and RenderScene
Idle == ~crashed /\ pc' = pc

ApiCreateGLTexture ==
    /\ Idle
    /\ \E tag \in TextureTags, img \in DecodeResults :
          CanCreate(img) /\ CreateGLTexture(tag, img)

ApiBindGLTextures == Idle /\ BindGLTextures

ApiDestroyGLTextures == Idle /\ CanDestroy /\ DestroyGLTextures

ApiFindTextureID == Idle /\ \E tag \in LookupTags : CallFindTextureID(tag)

ApiFindTextureSlot == Idle /\ \E tag \in LookupTags : CallFindTextureSlot(tag)

ApiDefineObjectMaterials == Idle /\ CanDefine /\ DefineObjectMaterials

ApiFindMaterial ==
    /\ Idle
    /\ \E tag \in LookupTags, material \in IndeterminateMaterials :
          CallFindMaterial(tag, material)

Next ==
    \/ ApiCreateGLTexture
    \/ ApiBindGLTextures
    \/ ApiDestroyGLTextures
    \/ ApiFindTextureID
    \/ ApiFindTextureSlot
    \/ ApiDefineObjectMaterials
    \/ ApiFindMaterial

Spec == Init /\ [][Next]_vars

-----------------------------------------------------------------------------
\* Properties of the texture registry

\* the registered indices whose entry carries the tag
Matching(tag) == {i \in 0..(m_loadedTextures - 1) : m_textureIDs[i].tag = tag}

\* the least index of a nonempty set of indices
First(S) == CHOOSE i \in S : \A j \in S : i <= j

\* C1: a CreateGLTexture call whose image decodes with 3 or 4 channels returns
\* true, appends the entry {tag, new handle} at index = the count before the
\* call, increments the count by exactly 1, and leaves every earlier entry
\* unchanged.
C1_CreateAppends ==
    [][ (/\ lastCall'.op = "CreateGLTexture"
         /\ lastCall'.args[2].image
         /\ lastCall'.args[2].colorChannels \in {3, 4})
        => /\ lastCall'.ret = TRUE
           /\ m_loadedTextures' = m_loadedTextures + 1
           /\ DOMAIN m_textureIDs' = 0..m_loadedTextures
           /\ m_textureIDs'[m_loadedTextures].tag = lastCall'.args[1]
           /\ m_textureIDs'[m_loadedTextures].ID \notin DOMAIN glTextures
           /\ m_textureIDs'[m_loadedTextures].ID \in DOMAIN glTextures'
           /\ \A i \in 0..(m_loadedTextures - 1) :
                 m_textureIDs'[i] = m_textureIDs[i] ]_vars

\* a second texture was registered behind a first one
C1_Witness ==
    /\ lastCall.op = "CreateGLTexture"
    /\ lastCall.ret = TRUE
    /\ m_loadedTextures = 2
    /\ m_textureIDs[1].tag = lastCall.args[1]
    /\ m_textureIDs[0].tag # m_textureIDs[1].tag

\* C2: a CreateGLTexture call that fails (no image decoded, or a channel count
\* that is neither 3 nor 4) returns false and leaves the count and every entry
\* of the texture registry as they were.
C2_FailedCreateKeepsRegistry ==
    [][ (/\ lastCall'.op = "CreateGLTexture"
         /\ \/ ~lastCall'.args[2].image
            \/ lastCall'.args[2].colorChannels \notin {3, 4})
        => /\ lastCall'.ret = FALSE
           /\ m_loadedTextures' = m_loadedTextures
           /\ m_textureIDs' = m_textureIDs ]_vars

\* a 2-channel image was rejected while a texture was registered
C2_Witness ==
    /\ lastCall.op = "CreateGLTexture"
    /\ lastCall.args[2].image
    /\ lastCall.args[2].colorChannels = 2
    /\ lastCall.ret = FALSE
    /\ m_loadedTextures = 1
    /\ Matching(lastCall.args[1]) = {}

\* C3: FindTextureSlot and FindTextureID return -1 when no entry has the tag;
\* otherwise the index of the first entry with the tag, and the handle stored
\* at that index. Neither changes the registry.
C3_TextureLookups ==
    [][ LET tag == lastCall'.args[1]
        IN /\ lastCall'.op = "FindTextureSlot" =>
                /\ lastCall'.ret = IF Matching(tag) = {} THEN -1
                                   ELSE First(Matching(tag))
                /\ m_textureIDs' = m_textureIDs
                /\ m_loadedTextures' = m_loadedTextures
           /\ lastCall'.op = "FindTextureID" =>
                /\ lastCall'.ret = IF Matching(tag) = {} THEN -1
                                   ELSE m_textureIDs[First(Matching(tag))].ID
                /\ m_textureIDs' = m_textureIDs
                /\ m_loadedTextures' = m_loadedTextures ]_vars

\* a tag registered twice was looked up: the first registration answers
C3_Witness ==
    /\ lastCall.op = "FindTextureID"
    /\ Matching(lastCall.args[1]) = {0, 1}
    /\ lastCall.ret = m_textureIDs[0].ID
    /\ m_textureIDs[0].ID # m_textureIDs[1].ID

\* C8: BindGLTextures with N loaded textures binds unit i to the handle of the
\* i-th texture for every i < N, touches no unit >= N and leaves the registry
\* alone.
C8_BindAll ==
    [][ lastCall'.op = "BindGLTextures"
        => /\ \A i \in 0..(m_loadedTextures - 1) :
                 glBoundTexture2D'[i] = m_textureIDs[i].ID
           /\ \A u \in 0..(NumTextureUnits - 1) :
                 u >= m_loadedTextures =>
                     glBoundTexture2D'[u] = glBoundTexture2D[u]
           /\ m_textureIDs' = m_textureIDs
           /\ m_loadedTextures' = m_loadedTextures ]_vars

\* two textures were bound to units 0 and 1
C8_Witness ==
    /\ lastCall.op = "BindGLTextures"
    /\ m_loadedTextures = 2
    /\ glBoundTexture2D[0] = m_textureIDs[0].ID
    /\ glBoundTexture2D[1] = m_textureIDs[1].ID
    /\ glBoundTexture2D[0] # glBoundTexture2D[1]

\* C10: DestroyGLTextures frees the backend texture of every registered entry
\* and allocates no new backend texture object.
C10_DestroyReleases ==
    [][ lastCall'.op = "DestroyGLTextures"
        => /\ \A i \in 0..(m_loadedTextures - 1) :
                 m_textureIDs[i].ID \notin DOMAIN glTextures'
           /\ DOMAIN glTextures' \subseteq DOMAIN glTextures ]_vars

-----------------------------------------------------------------------------
\* Properties of the material registry

\* the registered positions whose entry carries the tag
MatchingMaterials(tag) ==
    {k \in 1..Len(m_objectMaterials) : m_objectMaterials[k].tag = tag}

-----------------------------------------------------------------------------
\* The shader state binder under calls in any order, over the registries the
\* registration calls build

ApiSetTransformations == Idle /\ \E t \in TransformInputs : SetTransformations(t)

ApiSetShaderColor == Idle /\ \E c \in ColorInputs : SetShaderColor(c)

ApiSetShaderTexture == Idle /\ \E tag \in LookupTags : SetShaderTexture(tag)

ApiSetTextureUVScale == Idle /\ \E uv \in UVInputs : SetTextureUVScale(uv)

ApiSetShaderMaterial == Idle /\ \E tag \in LookupTags : SetShaderMaterial(tag)

\* the registrations the binder is exercised over: a load that finds no image
\* and a load of an RGB image
BinderDecodeResults ==
    { [image |-> FALSE, colorChannels |-> 0],
      [image |-> TRUE, colorChannels |-> 3] }

BinderCreateGLTexture ==
    /\ Idle
    /\ \E tag \in TextureTags, img \in BinderDecodeResults :
          CanCreate(img) /\ CreateGLTexture(tag, img)

BinderNext ==
    \/ BinderCreateGLTexture
    \/ ApiDefineObjectMaterials
    \/ ApiSetTransformations
    \/ ApiSetShaderColor
    \/ ApiSetShaderTexture
    \/ ApiSetTextureUVScale
    \/ ApiSetShaderMaterial

BinderSpec == Init /\ [][BinderNext]_vars

-----------------------------------------------------------------------------
\* Properties of the shader state binder

MaterialUniforms ==
    {"material.diffuseColor", "material.specularColor", "material.shininess"}

\* C5: SetShaderMaterial writes the three material uniforms only if a
\* registered material has the tag; for a tag no registered material has, the
\* three uniforms keep the values they had before the call.
C5_MaterialOnlyIfFound ==
    [][ (/\ lastCall'.op = "SetShaderMaterial"
         /\ MatchingMaterials(lastCall'.args[1]) = {})
        => \A n \in MaterialUniforms : uniforms'[n] = uniforms[n] ]_vars

\* C6: SetShaderTexture sets bUseTexture to true and objectTexture to the
\* registration index of the tag, or to -1 when the tag is not registered
\* (with a shader manager to hold the uniforms).
C6_ShaderTexture ==
    [][ (lastCall'.op = "SetShaderTexture" /\ m_pShaderManager # NULL)
        => LET tag == lastCall'.args[1]
           IN /\ uniforms'[g_UseTextureName] = TRUE
              /\ uniforms'[g_TextureValueName] =
                    IF Matching(tag) = {} THEN -1 ELSE First(Matching(tag)) ]_vars

\* an unregistered tag was selected while two textures were registered
C6_Witness ==
    /\ lastCall.op = "SetShaderTexture"
    /\ m_pShaderManager # NULL
    /\ m_loadedTextures = 2
    /\ Matching(lastCall.args[1]) = {}
    /\ uniforms[g_UseTextureName] = TRUE
    /\ uniforms[g_TextureValueName] = -1

\* C7: SetShaderColor leaves bUseTexture false and objectColor at the given
\* RGBA, SetShaderTexture leaves bUseTexture true, and no other operation
\* changes bUseTexture: the last of the two decides the flag at a draw.
C7_LastOfColorAndTextureWins ==
    [][ /\ (lastCall'.op = "SetShaderColor" /\ m_pShaderManager # NULL) =>
              /\ uniforms'[g_UseTextureName] = FALSE
              /\ uniforms'[g_ColorValueName] = lastCall'.args[1]
        /\ (lastCall'.op = "SetShaderTexture" /\ m_pShaderManager # NULL) =>
              uniforms'[g_UseTextureName] = TRUE
        /\ lastCall'.op \notin {"SetShaderColor", "SetShaderTexture"} =>
              uniforms'[g_UseTextureName] = uniforms[g_UseTextureName] ]_vars

\* a texture was selected, then a colour, then another binder call was made
C7_Witness ==
    /\ lastCall.op \in {"SetTransformations", "SetTextureUVScale",
                        "SetShaderMaterial"}
    /\ uniforms[g_TextureValueName] # 0
    /\ uniforms[g_ColorValueName] = <<7, 7, 7, 10>>
    /\ uniforms[g_UseTextureName] = FALSE

-----------------------------------------------------------------------------
\* Scene preparer and scene renderer

\* m_basicMeshes->Load<Shape>Mesh()
LoadMesh(shape) ==
    /\ m_basicMeshes' = m_basicMeshes \cup {shape}
    /\ lastCall' = [op |-> "LoadMesh", args |-> <<shape>>, ret |-> "void"]
    /\ UNCHANGED << m_pShaderManager, m_loadedTextures, m_textureIDs,
                    m_objectMaterials, uniforms, glTextures, glActiveTexture,
                    glBoundTexture2D, imageBuffers, crashed >>

\* m_basicMeshes->Draw<Shape>Mesh(): draws with the state bound at the call
DrawMesh(shape) ==
    /\ lastCall' = [op |-> "DrawMesh", args |-> <<shape>>, ret |-> "void"]
    /\ UNCHANGED << m_pShaderManager, m_loadedTextures, m_textureIDs,
                    m_objectMaterials, m_basicMeshes, uniforms, glTextures,
                    glActiveTexture, glBoundTexture2D, imageBuffers, crashed >>

\* the light uniforms SetupSceneLights writes (vectors in hundredths)
SceneLights ==
    [n \in {"directionalLight.direction", "directionalLight.ambient",
            "directionalLight.diffuse", "directionalLight.specular",
            "directionalLight.bActive",
            "pointLights[0].position", "pointLights[0].ambient",
            "pointLights[0].diffuse", "pointLights[0].specular",
            "pointLights[0].bActive",
            "pointLights[1].position", "pointLights[1].ambient",
            "pointLights[1].diffuse", "pointLights[1].specular",
            "pointLights[1].bActive"} |->
        CASE n = "directionalLight.direction" -> <<-30, -100, -20>>
          [] n = "directionalLight.ambient" -> <<30, 30, 32>>
          [] n = "directionalLight.diffuse" -> <<50, 50, 52>>
          [] n = "directionalLight.specular" -> <<30, 30, 30>>
          [] n = "pointLights[0].position" -> <<500, 800, 300>>
          [] n = "pointLights[0].ambient" -> <<15, 15, 15>>
          [] n = "pointLights[0].diffuse" -> <<60, 58, 55>>
          [] n = "pointLights[0].specular" -> <<40, 40, 40>>
          [] n = "pointLights[1].position" -> <<-900, 600, 200>>
          [] n = "pointLights[1].ambient" -> <<20, 20, 20>>
          [] n = "pointLights[1].diffuse" -> <<50, 48, 46>>
          [] n = "pointLights[1].specular" -> <<20, 20, 20>>
          [] OTHER -> TRUE]

\* SetupSceneLights uses m_pShaderManager without testing it
SetupSceneLights ==
    /\ IF NULL # m_pShaderManager
       THEN /\ uniforms' = [uniforms EXCEPT ![g_UseLightingName] = TRUE,
                                            !["lights"] = SceneLights]
            /\ UNCHANGED crashed
       ELSE /\ crashed' = TRUE
            /\ UNCHANGED uniforms
    /\ lastCall' = [op |-> "SetupSceneLights", args |-> << >>, ret |-> "void"]
    /\ UNCHANGED notBinderVars

\* the calls of PrepareScene and of RenderScene, in program order, each with
\* the line that makes it. The scale, rotation and position literals of
\* RenderScene are left out: every SetTransformations step passes the floor
\* plane's values (SceneTransform).
PrepareSceneCalls ==
    << [op |-> "LoadMesh", arg |-> "Plane", line |-> 498],
       [op |-> "LoadMesh", arg |-> "Cylinder", line |-> 499],
       [op |-> "LoadMesh", arg |-> "Sphere", line |-> 500],
       [op |-> "LoadMesh", arg |-> "Cone", line |-> 501],
       [op |-> "LoadMesh", arg |-> "Box", line |-> 502],
       [op |-> "CreateGLTexture", arg |-> "wood", line |-> 506],
       [op |-> "CreateGLTexture", arg |-> "fabric", line |-> 509],
       [op |-> "CreateGLTexture", arg |-> "white", line |-> 512],
       [op |-> "CreateGLTexture", arg |-> "floor", line |-> 515],
       [op |-> "CreateGLTexture", arg |-> "pillow", line |-> 518],
       [op |-> "CreateGLTexture", arg |-> "wall", line |-> 521],
       [op |-> "CreateGLTexture", arg |-> "metal", line |-> 524],
       [op |-> "CreateGLTexture", arg |-> "record_player", line |-> 527],
       [op |-> "CreateGLTexture", arg |-> "turntable", line |-> 530],
       [op |-> "CreateGLTexture", arg |-> "vinyl", line |-> 533],
       [op |-> "CreateGLTexture", arg |-> "polka", line |-> 536],
       [op |-> "CreateGLTexture", arg |-> "picture1", line |-> 539],
       [op |-> "CreateGLTexture", arg |-> "picture2", line |-> 542],
       [op |-> "CreateGLTexture", arg |-> "picture3", line |-> 545],
       [op |-> "CreateGLTexture", arg |-> "picture4", line |-> 548],
       [op |-> "DefineObjectMaterials", arg |-> "", line |-> 552],
       [op |-> "SetupSceneLights", arg |-> "", line |-> 555] >>

RenderSceneCalls ==
    << [op |-> "SetTransformations", arg |-> "", line |-> 593],
       [op |-> "SetShaderTexture", arg |-> "floor", line |-> 601],
       [op |-> "SetShaderMaterial", arg |-> "floor", line |-> 604],
       [op |-> "SetTextureUVScale", arg |-> "", line |-> 607],
       [op |-> "DrawMesh", arg |-> "Plane", line |-> 610],
       [op |-> "SetTransformations", arg |-> "", line |-> 624],
       [op |-> "SetShaderTexture", arg |-> "white", line |-> 632],
       [op |-> "SetShaderMaterial", arg |-> "white", line |-> 635],
       [op |-> "SetTextureUVScale", arg |-> "", line |-> 638],
       [op |-> "DrawMesh", arg |-> "Plane", line |-> 641],
       [op |-> "SetTransformations", arg |-> "", line |-> 654],
       [op |-> "SetShaderTexture", arg |-> "wood", line |-> 662],
       [op |-> "SetTextureUVScale", arg |-> "", line |-> 664],
       [op |-> "DrawMesh", arg |-> "Cylinder", line |-> 666],
       [op |-> "SetTransformations", arg |-> "", line |-> 674],
       [op |-> "SetShaderTexture", arg |-> "wood", line |-> 681],
       [op |-> "SetShaderMaterial", arg |-> "wood", line |-> 683],
       [op |-> "SetTextureUVScale", arg |-> "", line |-> 685],
       [op |-> "DrawMesh", arg |-> "Cylinder", line |-> 686],
       [op |-> "SetTransformations", arg |-> "", line |-> 694],
       [op |-> "SetShaderTexture", arg |-> "wood", line |-> 701],
       [op |-> "SetShaderMaterial", arg |-> "wood", line |-> 702],
       [op |-> "SetTextureUVScale", arg |-> "", line |-> 704],
       [op |-> "DrawMesh", arg |-> "Cylinder", line |-> 705],
       [op |-> "SetTransformations", arg |-> "", line |-> 713],
       [op |-> "SetShaderTexture", arg |-> "wood", line |-> 720],
       [op |-> "SetShaderMaterial", arg |-> "wood", line |-> 721],
       [op |-> "SetTextureUVScale", arg |-> "", line |-> 723],
       [op |-> "DrawMesh", arg |-> "Cylinder", line |-> 724],
       [op |-> "SetTransformations", arg |-> "", line |-> 732],
       [op |-> "SetShaderTexture", arg |-> "wood", line |-> 739],
       [op |-> "SetShaderMaterial", arg |-> "wood", line |-> 740],
       [op |-> "SetTextureUVScale", arg |-> "", line |-> 742],
       [op |-> "DrawMesh", arg |-> "Box", line |-> 743],
       [op |-> "SetTransformations", arg |-> "", line |-> 751],
       [op |-> "SetShaderTexture", arg |-> "fabric", line |-> 758],
       [op |-> "SetShaderMaterial", arg |-> "fabric", line |-> 759],
       [op |-> "SetTextureUVScale", arg |-> "", line |-> 761],
       [op |-> "DrawMesh", arg |-> "Box", line |-> 762],
       [op |-> "SetTransformations", arg |-> "", line |-> 770],
       [op |-> "SetShaderTexture", arg |-> "fabric", line |-> 777],
       [op |-> "SetShaderMaterial", arg |-> "fabric", line |-> 778],
       [op |-> "SetTextureUVScale", arg |-> "", line |-> 780],
       [op |-> "DrawMesh", arg |-> "Box", line |-> 781],
       [op |-> "SetTransformations", arg |-> "", line |-> 789],
       [op |-> "SetShaderTexture", arg |-> "wood", line |-> 796],
       [op |-> "SetShaderMaterial", arg |-> "wood", line |-> 797],
       [op |-> "SetTextureUVScale", arg |-> "", line |-> 799],
       [op |-> "DrawMesh", arg |-> "Box", line |-> 800],
       [op |-> "SetTransformations", arg |-> "", line |-> 808],
       [op |-> "SetShaderTexture", arg |-> "wood", line |-> 815],
       [op |-> "SetShaderMaterial", arg |-> "wood", line |-> 816],
       [op |-> "SetTextureUVScale", arg |-> "", line |-> 818],
       [op |-> "DrawMesh", arg |-> "Box", line |-> 819],
       [op |-> "SetTransformations", arg |-> "", line |-> 827],
       [op |-> "SetShaderTexture", arg |-> "white", line |-> 829],
       [op |-> "SetShaderMaterial", arg |-> "pillow", line |-> 830],
       [op |-> "SetTextureUVScale", arg |-> "", line |-> 832],
       [op |-> "DrawMesh", arg |-> "Box", line |-> 833],
       [op |-> "SetTransformations", arg |-> "", line |-> 841],
       [op |-> "SetShaderTexture", arg |-> "pillow", line |-> 843],
       [op |-> "SetShaderMaterial", arg |-> "pillow", line |-> 844],
       [op |-> "SetTextureUVScale", arg |-> "", line |-> 846],
       [op |-> "DrawMesh", arg |-> "Box", line |-> 847],
       [op |-> "SetTransformations", arg |-> "", line |-> 859],
       [op |-> "SetShaderTexture", arg |-> "metal", line |-> 860],
       [op |-> "SetShaderMaterial", arg |-> "metal", line |-> 861],
       [op |-> "SetTextureUVScale", arg |-> "", line |-> 862],
       [op |-> "DrawMesh", arg |-> "Box", line |-> 863],
       [op |-> "SetTransformations", arg |-> "", line |-> 867],
       [op |-> "SetShaderTexture", arg |-> "metal", line |-> 868],
       [op |-> "SetShaderMaterial", arg |-> "metal", line |-> 869],
       [op |-> "DrawMesh", arg |-> "Box", line |-> 870],
       [op |-> "SetTransformations", arg |-> "", line |-> 874],
       [op |-> "SetShaderTexture", arg |-> "metal", line |-> 875],
       [op |-> "SetShaderMaterial", arg |-> "metal", line |-> 876],
       [op |-> "DrawMesh", arg |-> "Box", line |-> 877],
       [op |-> "SetTransformations", arg |-> "", line |-> 881],
       [op |-> "SetShaderTexture", arg |-> "metal", line |-> 882],
       [op |-> "SetShaderMaterial", arg |-> "metal", line |-> 883],
       [op |-> "DrawMesh", arg |-> "Box", line |-> 884],
       [op |-> "SetTransformations", arg |-> "", line |-> 889],
       [op |-> "SetShaderTexture", arg |-> "metal", line |-> 890],
       [op |-> "SetShaderMaterial", arg |-> "metal", line |-> 891],
       [op |-> "DrawMesh", arg |-> "Box", line |-> 892],
       [op |-> "SetTransformations", arg |-> "", line |-> 897],
       [op |-> "SetShaderTexture", arg |-> "metal", line |-> 898],
       [op |-> "SetShaderMaterial", arg |-> "metal", line |-> 899],
       [op |-> "DrawMesh", arg |-> "Box", line |-> 900],
       [op |-> "SetTransformations", arg |-> "", line |-> 904],
       [op |-> "SetShaderTexture", arg |-> "metal", line |-> 905],
       [op |-> "SetShaderMaterial", arg |-> "metal", line |-> 906],
       [op |-> "DrawMesh", arg |-> "Box", line |-> 907],
       [op |-> "SetTransformations", arg |-> "", line |-> 920],
       [op |-> "SetShaderTexture", arg |-> "record_player", line |-> 921],
       [op |-> "SetShaderMaterial", arg |-> "metal", line |-> 922],
       [op |-> "SetTextureUVScale", arg |-> "", line |-> 923],
       [op |-> "DrawMesh", arg |-> "Box", line |-> 924],
       [op |-> "SetTransformations", arg |-> "", line |-> 931],
       [op |-> "SetShaderTexture", arg |-> "record_player", line |-> 932],
       [op |-> "SetShaderMaterial", arg |-> "metal", line |-> 933],
       [op |-> "SetTextureUVScale", arg |-> "", line |-> 934],
       [op |-> "DrawMesh", arg |-> "Box", line |-> 935],
       [op |-> "SetTransformations", arg |-> "", line |-> 943],
       [op |-> "SetShaderColor", arg |-> "", line |-> 944],
       [op |-> "SetShaderMaterial", arg |-> "metal", line |-> 945],
       [op |-> "DrawMesh", arg |-> "Cylinder", line |-> 946],
       [op |-> "SetTransformations", arg |-> "", line |-> 954],
       [op |-> "SetShaderTexture", arg |-> "vinyl", line |-> 955],
       [op |-> "SetShaderMaterial", arg |-> "vinyl", line |-> 956],
       [op |-> "SetTextureUVScale", arg |-> "", line |-> 957],
       [op |-> "DrawMesh", arg |-> "Cylinder", line |-> 958],
       [op |-> "SetTransformations", arg |-> "", line |-> 966],
       [op |-> "SetShaderTexture", arg |-> "metal", line |-> 967],
       [op |-> "SetShaderMaterial", arg |-> "metal", line |-> 968],
       [op |-> "SetTextureUVScale", arg |-> "", line |-> 969],
       [op |-> "DrawMesh", arg |-> "Box", line |-> 970],
       [op |-> "SetTransformations", arg |-> "", line |-> 978],
       [op |-> "SetShaderTexture", arg |-> "metal", line |-> 979],
       [op |-> "SetShaderMaterial", arg |-> "metal", line |-> 980],
       [op |-> "SetTextureUVScale", arg |-> "", line |-> 981],
       [op |-> "DrawMesh", arg |-> "Box", line |-> 982],
       [op |-> "SetTransformations", arg |-> "", line |-> 990],
       [op |-> "SetShaderTexture", arg |-> "polka", line |-> 991],
       [op |-> "SetShaderMaterial", arg |-> "polka", line |-> 992],
       [op |-> "SetTextureUVScale", arg |-> "", line |-> 993],
       [op |-> "DrawMesh", arg |-> "Cylinder", line |-> 994],
       [op |-> "SetTransformations", arg |-> "", line |-> 1006],
       [op |-> "SetShaderTexture", arg |-> "wood", line |-> 1007],
       [op |-> "SetShaderMaterial", arg |-> "wood", line |-> 1008],
       [op |-> "SetTextureUVScale", arg |-> "", line |-> 1009],
       [op |-> "DrawMesh", arg |-> "Box", line |-> 1010],
       [op |-> "SetTransformations", arg |-> "", line |-> 1018],
       [op |-> "SetShaderTexture", arg |-> "wall", line |-> 1019],
       [op |-> "SetShaderMaterial", arg |-> "white", line |-> 1020],
       [op |-> "SetTextureUVScale", arg |-> "", line |-> 1021],
       [op |-> "DrawMesh", arg |-> "Box", line |-> 1022],
       [op |-> "SetTransformations", arg |-> "", line |-> 1030],
       [op |-> "SetShaderTexture", arg |-> "picture1", line |-> 1031],
       [op |-> "SetShaderMaterial", arg |-> "picture", line |-> 1032],
       [op |-> "SetTextureUVScale", arg |-> "", line |-> 1033],
       [op |-> "DrawMesh", arg |-> "Box", line |-> 1034],
       [op |-> "SetTransformations", arg |-> "", line |-> 1042],
       [op |-> "SetShaderTexture", arg |-> "wood", line |-> 1043],
       [op |-> "SetShaderMaterial", arg |-> "wood", line |-> 1044],
       [op |-> "SetTextureUVScale", arg |-> "", line |-> 1045],
       [op |-> "DrawMesh", arg |-> "Box", line |-> 1046],
       [op |-> "SetTransformations", arg |-> "", line |-> 1054],
       [op |-> "SetShaderTexture", arg |-> "wall", line |-> 1055],
       [op |-> "SetShaderMaterial", arg |-> "white", line |-> 1056],
       [op |-> "SetTextureUVScale", arg |-> "", line |-> 1057],
       [op |-> "DrawMesh", arg |-> "Box", line |-> 1058],
       [op |-> "SetTransformations", arg |-> "", line |-> 1066],
       [op |-> "SetShaderTexture", arg |-> "picture2", line |-> 1067],
       [op |-> "SetShaderMaterial", arg |-> "picture", line |-> 1068],
       [op |-> "SetTextureUVScale", arg |-> "", line |-> 1069],
       [op |-> "DrawMesh", arg |-> "Box", line |-> 1070],
       [op |-> "SetTransformations", arg |-> "", line |-> 1078],
       [op |-> "SetShaderTexture", arg |-> "wood", line |-> 1079],
       [op |-> "SetShaderMaterial", arg |-> "wood", line |-> 1080],
       [op |-> "SetTextureUVScale", arg |-> "", line |-> 1081],
       [op |-> "DrawMesh", arg |-> "Box", line |-> 1082],
       [op |-> "SetTransformations", arg |-> "", line |-> 1090],
       [op |-> "SetShaderTexture", arg |-> "wall", line |-> 1091],
       [op |-> "SetShaderMaterial", arg |-> "white", line |-> 1092],
       [op |-> "SetTextureUVScale", arg |-> "", line |-> 1093],
       [op |-> "DrawMesh", arg |-> "Box", line |-> 1094],
       [op |-> "SetTransformations", arg |-> "", line |-> 1102],
       [op |-> "SetShaderTexture", arg |-> "picture3", line |-> 1103],
       [op |-> "SetShaderMaterial", arg |-> "picture", line |-> 1104],
       [op |-> "SetTextureUVScale", arg |-> "", line |-> 1105],
       [op |-> "DrawMesh", arg |-> "Box", line |-> 1106],
       [op |-> "SetTransformations", arg |-> "", line |-> 1114],
       [op |-> "SetShaderTexture", arg |-> "wood", line |-> 1115],
       [op |-> "SetShaderMaterial", arg |-> "wood", line |-> 1116],
       [op |-> "SetTextureUVScale", arg |-> "", line |-> 1117],
       [op |-> "DrawMesh", arg |-> "Box", line |-> 1118],
       [op |-> "SetTransformations", arg |-> "", line |-> 1126],
       [op |-> "SetShaderTexture", arg |-> "wall", line |-> 1127],
       [op |-> "SetShaderMaterial", arg |-> "white", line |-> 1128],
       [op |-> "SetTextureUVScale", arg |-> "", line |-> 1129],
       [op |-> "DrawMesh", arg |-> "Box", line |-> 1130],
       [op |-> "SetTransformations", arg |-> "", line |-> 1138],
       [op |-> "SetShaderTexture", arg |-> "picture4", line |-> 1139],
       [op |-> "SetShaderMaterial", arg |-> "picture", line |-> 1140],
       [op |-> "SetTextureUVScale", arg |-> "", line |-> 1141],
       [op |-> "DrawMesh", arg |-> "Box", line |-> 1142] >>


SceneTransform ==
    [scaleXYZ |-> <<20, 1, 10>>, XrotationDegrees |-> 0, YrotationDegrees |-> 0,
     ZrotationDegrees |-> 0, positionXYZ |-> <<0, 0, 0>>]

\* what stbi_load gives for the .jpg files of the manifest: no image, a grey
\* image (1 channel) or a colour image (3 channels)
JpegDecodeResults ==
    { [image |-> FALSE, colorChannels |-> 0],
      [image |-> TRUE, colorChannels |-> 1],
      [image |-> TRUE, colorChannels |-> 3] }

\* most texture loads that fail in one PrepareScene run
MaxLoadFailures == 2

\* the CreateGLTexture calls PrepareScene has made before position at
LoadsBefore(at) ==
    Cardinality({k \in 1..(at - 1) : PrepareSceneCalls[k].op = "CreateGLTexture"})

CanFail(img) ==
    (img.image /\ SupportedChannels(img.colorChannels))
    \/ LoadsBefore(pc.at) - m_loadedTextures < MaxLoadFailures

\* the call at the current position, and the position after it
Running == ~crashed /\ pc.fn \in {"PrepareScene", "RenderScene"}

Current ==
    IF pc.fn = "PrepareScene" THEN PrepareSceneCalls[pc.at]
                              ELSE RenderSceneCalls[pc.at]

\* Advance with PrepareScene returning at the first load that fails
AdvanceReturnOnFailure ==
    pc' = IF pc.fn = "PrepareScene"
          THEN IF lastCall'.op = "CreateGLTexture" /\ lastCall'.ret = FALSE
               THEN [fn |-> "RenderScene", at |-> 1]
               ELSE IF pc.at < Len(PrepareSceneCalls)
                    THEN [pc EXCEPT !.at = pc.at + 1]
                    ELSE [fn |-> "RenderScene", at |-> 1]
          ELSE IF pc.at < Len(RenderSceneCalls)
               THEN [pc EXCEPT !.at = pc.at + 1]
               ELSE [fn |-> "done", at |-> 0]

Advance ==
    pc' = IF pc.fn = "PrepareScene"
          THEN IF pc.at < Len(PrepareSceneCalls)
               THEN [pc EXCEPT !.at = pc.at + 1]
               ELSE [fn |-> "RenderScene", at |-> 1]
          ELSE IF pc.at < Len(RenderSceneCalls)
               THEN [pc EXCEPT !.at = pc.at + 1]
               ELSE [fn |-> "done", at |-> 0]

CallPrepareScene ==
    /\ ~crashed
    /\ pc.fn = "idle"
    /\ pc' = [fn |-> "PrepareScene", at |-> 1]
    /\ lastCall' = [op |-> "PrepareScene", args |-> << >>, ret |-> "void"]
    /\ UNCHANGED << m_pShaderManager, m_loadedTextures, m_textureIDs,
                    m_objectMaterials, m_basicMeshes, uniforms, glTextures,
                    glActiveTexture, glBoundTexture2D, imageBuffers, crashed >>

SceneLoadMesh ==
    Running /\ Current.op = "LoadMesh" /\ LoadMesh(Current.arg) /\ Advance

SceneCreateGLTexture ==
    /\ Running /\ Current.op = "CreateGLTexture"
    /\ \E img \in JpegDecodeResults :
          CanFail(img) /\ CreateGLTexture(Current.arg, img)
    /\ Advance

SceneDefineObjectMaterials ==
    /\ Running /\ Current.op = "DefineObjectMaterials"
    /\ DefineObjectMaterials /\ Advance

SceneSetupSceneLights ==
    Running /\ Current.op = "SetupSceneLights" /\ SetupSceneLights /\ Advance

SceneSetTransformations ==
    /\ Running /\ Current.op = "SetTransformations"
    /\ SetTransformations(SceneTransform) /\ Advance

SceneSetShaderTexture ==
    /\ Running /\ Current.op = "SetShaderTexture"
    /\ SetShaderTexture(Current.arg) /\ Advance

SceneSetShaderColor ==
    /\ Running /\ Current.op = "SetShaderColor"
    /\ SetShaderColor(<<7, 7, 7, 10>>) /\ Advance

SceneSetShaderMaterial ==
    /\ Running /\ Current.op = "SetShaderMaterial"
    /\ SetShaderMaterial(Current.arg) /\ Advance

SceneSetTextureUVScale ==
    /\ Running /\ Current.op = "SetTextureUVScale"
    /\ SetTextureUVScale(<<1, 1>>) /\ Advance

SceneDrawMesh ==
    Running /\ Current.op = "DrawMesh" /\ DrawMesh(Current.arg) /\ Advance

SceneNext ==
    \/ CallPrepareScene
    \/ SceneLoadMesh
    \/ SceneCreateGLTexture
    \/ SceneDefineObjectMaterials
    \/ SceneSetupSceneLights
    \/ SceneSetTransformations
    \/ SceneSetShaderTexture
    \/ SceneSetShaderColor
    \/ SceneSetShaderMaterial
    \/ SceneSetTextureUVScale
    \/ SceneDrawMesh

SceneSpec == Init /\ [][SceneNext]_vars

\* C9: in PrepareScene followed by RenderScene, at every mesh draw issued while
\* bUseTexture is true the texture unit named by the sampler index holds the
\* handle of the texture registered at that index (BindGLTextures ran after
\* the last texture load).
C9_TexturesBoundAtDraw ==
    (/\ lastCall.op = "DrawMesh"
     /\ uniforms[g_UseTextureName] = TRUE
     /\ uniforms[g_TextureValueName] \in 0..(m_loadedTextures - 1))
    => glBoundTexture2D[uniforms[g_TextureValueName]] =
          m_textureIDs[uniforms[g_TextureValueName]].ID
-----------------------------------------------------------------------------
\* Properties of the scene preparer

\* the position in PrepareSceneCalls of the load that registers the tag
ManifestPosition(tag) ==
    CHOOSE k \in 1..Len(PrepareSceneCalls) :
        PrepareSceneCalls[k].op = "CreateGLTexture" /\ PrepareSceneCalls[k].arg = tag

ManifestTags ==
    {PrepareSceneCalls[k].arg : k \in {j \in 1..Len(PrepareSceneCalls) :
                                         PrepareSceneCalls[j].op = "CreateGLTexture"}}

\* C11: whichever texture loads of PrepareScene fail, PrepareScene goes on to
\* the next call after every load, a successful load appends its tag at the
\* next slot and a failed one appends nothing, and at the end the registry
\* holds manifest tags in manifest order in slots 0..k-1, the 10 materials are
\* registered and the lights are configured (with a shader manager to
\* configure them in).
C11_PrepareSceneCompletes ==
    [][ m_pShaderManager # NULL =>
        /\ (pc.fn = "PrepareScene" /\ lastCall'.op = "CreateGLTexture") =>
              /\ pc' = [fn |-> "PrepareScene", at |-> pc.at + 1]
              /\ IF lastCall'.ret
                 THEN /\ m_loadedTextures' = m_loadedTextures + 1
                      /\ m_textureIDs'[m_loadedTextures].tag =
                            PrepareSceneCalls[pc.at].arg
                      /\ \A i \in 0..(m_loadedTextures - 1) :
                            m_textureIDs'[i] = m_textureIDs[i]
                 ELSE /\ m_loadedTextures' = m_loadedTextures
                      /\ m_textureIDs' = m_textureIDs
        /\ (pc.fn = "PrepareScene" /\ pc'.fn = "RenderScene") =>
              /\ crashed' = FALSE
              /\ DOMAIN m_textureIDs' = 0..(m_loadedTextures' - 1)
              /\ \A i \in DOMAIN m_textureIDs' :
                    m_textureIDs'[i].tag \in ManifestTags
              /\ \A i, j \in DOMAIN m_textureIDs' :
                    i < j => ManifestPosition(m_textureIDs'[i].tag)
                               < ManifestPosition(m_textureIDs'[j].tag)
              /\ m_objectMaterials' = DefinedMaterials
              /\ uniforms'[g_UseLightingName] = TRUE
              /\ DOMAIN uniforms'["lights"] = DOMAIN SceneLights
              /\ m_basicMeshes' = {"Plane", "Cylinder", "Sphere", "Cone", "Box"}
      ]_vars

\* PrepareScene finished although its first load (wood) had failed
C11_Witness ==
    /\ pc = [fn |-> "RenderScene", at |-> 1]
    /\ m_pShaderManager # NULL
    /\ m_loadedTextures = 14
    /\ m_textureIDs[0].tag = "fabric"
    /\ m_textureIDs[13].tag = "picture4"
    /\ Len(m_objectMaterials) = 10
    /\ uniforms[g_UseLightingName] = TRUE
-----------------------------------------------------------------------------
\* Properties of the shader state binder over both registries

\* C12: with texture tag t and material tag m registered, SetShaderTexture(t)
\* leaves bUseTexture = true and objectTexture = the registration index of t
\* without touching the material uniforms, and SetShaderMaterial(m) leaves the
\* material uniforms at the values registered for m without touching
\* bUseTexture and objectTexture: after both calls the draw sees all of them.
C12_TextureAndMaterialForDraw ==
    [][ m_pShaderManager # NULL =>
        /\ (/\ lastCall'.op = "SetShaderTexture"
            /\ Matching(lastCall'.args[1]) # {}) =>
              /\ uniforms'[g_UseTextureName] = TRUE
              /\ uniforms'[g_TextureValueName] =
                    First(Matching(lastCall'.args[1]))
              /\ \A n \in MaterialUniforms : uniforms'[n] = uniforms[n]
        /\ (/\ lastCall'.op = "SetShaderMaterial"
            /\ MatchingMaterials(lastCall'.args[1]) # {}) =>
              LET m == m_objectMaterials[
                           First(MatchingMaterials(lastCall'.args[1]))]
              IN /\ uniforms'["material.diffuseColor"] = m.diffuseColor
                 /\ uniforms'["material.specularColor"] = m.specularColor
                 /\ uniforms'["material.shininess"] = m.shininess
                 /\ uniforms'[g_UseTextureName] = uniforms[g_UseTextureName]
                 /\ uniforms'[g_TextureValueName] = uniforms[g_TextureValueName]
      ]_vars

\* textures wood, fabric and the materials registered; texture wood and
\* material fabric selected
C12_Witness ==
    /\ m_pShaderManager # NULL
    /\ lastCall.op = "SetShaderMaterial"
    /\ lastCall.args[1] = "fabric"
    /\ m_loadedTextures = 2
    /\ m_textureIDs[0].tag = "wood"
    /\ m_textureIDs[1].tag = "fabric"
    /\ uniforms[g_UseTextureName] = TRUE
    /\ uniforms[g_TextureValueName] = 0
    /\ uniforms["material.diffuseColor"] = <<8, 5, 5>>
    /\ uniforms["material.specularColor"] = <<1, 1, 1>>
    /\ uniforms["material.shininess"] = 5
-----------------------------------------------------------------------------
\* Properties of the scene renderer

\* the position in RenderSceneCalls of the call made last
LastRenderCall ==
    IF pc.fn = "done" THEN Len(RenderSceneCalls)
    ELSE IF pc.fn = "RenderScene" THEN pc.at - 1 ELSE 0

\* the position of the last draw before position k (0: none)
PreviousDraw(k) ==
    LET draws == {j \in 1..(k - 1) : RenderSceneCalls[j].op = "DrawMesh"}
    IN IF draws = {} THEN 0 ELSE CHOOSE j \in draws : \A i \in draws : i <= j

\* C13: in RenderScene the calls between the previous draw (or the start) and
\* a draw are one SetTransformations, then a SetShaderTexture or
\* SetShaderColor, then a SetShaderMaterial, then a SetTextureUVScale.
C13_BinderCallsBeforeDraw ==
    lastCall.op = "DrawMesh" =>
        LET k == LastRenderCall
            j == PreviousDraw(k)
        IN /\ k - j - 1 = 4
           /\ RenderSceneCalls[j + 1].op = "SetTransformations"
           /\ RenderSceneCalls[j + 2].op \in {"SetShaderTexture", "SetShaderColor"}
           /\ RenderSceneCalls[j + 3].op = "SetShaderMaterial"
           /\ RenderSceneCalls[j + 4].op = "SetTextureUVScale"
-----------------------------------------------------------------------------
\* Properties of the transform composer

\* the matrix M applied to the column vector v
Apply(M, v) ==
    << M[1][1] * v[1] + M[1][2] * v[2] + M[1][3] * v[3] + M[1][4] * v[4],
       M[2][1] * v[1] + M[2][2] * v[2] + M[2][3] * v[3] + M[2][4] * v[4],
       M[3][1] * v[1] + M[3][2] * v[2] + M[3][3] * v[3] + M[3][4] * v[4],
       M[4][1] * v[1] + M[4][2] * v[2] + M[4][3] * v[3] + M[4][4] * v[4] >>

Column(M, j) == << M[1][j], M[2][j], M[3][j], M[4][j] >>

UnitVector(j) == << IF j = 1 THEN 1 ELSE 0, IF j = 2 THEN 1 ELSE 0,
                    IF j = 3 THEN 1 ELSE 0, IF j = 4 THEN 1 ELSE 0 >>

\* v scaled, then turned about X, about Y, about Z, then moved
Transformed(t, v) ==
    Apply(TranslationMatrix(t.positionXYZ),
      Apply(RotationZMatrix(t.ZrotationDegrees),
        Apply(RotationYMatrix(t.YrotationDegrees),
          Apply(RotationXMatrix(t.XrotationDegrees),
            Apply(ScaleMatrix(t.scaleXYZ), v)))))

\* scale (2,1,1), rotation (0,90,0) degrees, position (1,0,0), and the
\* product Translation * RotationY * Scale worked out by hand
ExampleTransform ==
    [scaleXYZ |-> <<2, 1, 1>>, XrotationDegrees |-> 0, YrotationDegrees |-> 90,
     ZrotationDegrees |-> 0, positionXYZ |-> <<1, 0, 0>>]

ExampleModel ==
    << <<0, 0, 1, 1>>, <<0, 1, 0, 0>>, <<-2, 0, 0, 0>>, <<0, 0, 0, 1>> >>

\* C14: SetTransformations writes to the model uniform the matrix
\* Translation * RotationZ * RotationY * RotationX * Scale of its arguments,
\* whatever the state before the call, and writes no other uniform; for the
\* example arguments the matrix is the reference product.
C14_ModelMatrix ==
    [][ (lastCall'.op = "SetTransformations" /\ m_pShaderManager # NULL) =>
        LET t == lastCall'.args[1]
        IN /\ \A j \in 1..4 :
                 Column(uniforms'[g_ModelName], j) = Transformed(t, UnitVector(j))
           /\ \A n \in DOMAIN uniforms \ {g_ModelName} :
                 uniforms'[n] = uniforms[n]
           /\ t = ExampleTransform => uniforms'[g_ModelName] = ExampleModel
      ]_vars

\* the example arguments were passed after another transform had been set
C14_Witness ==
    /\ m_pShaderManager # NULL
    /\ lastCall.op = "SetTransformations"
    /\ lastCall.args[1] = ExampleTransform
    /\ uniforms[g_ModelName] = ExampleModel
    /\ uniforms[g_UseTextureName] = TRUE
-----------------------------------------------------------------------------
\* Uniqueness of tags

UniqueTextureTags ==
    \A i, j \in 0..(m_loadedTextures - 1) :
        i # j => m_textureIDs[i].tag # m_textureIDs[j].tag

UniqueMaterialTags ==
    \A i, j \in 1..Len(m_objectMaterials) :
        i # j => m_objectMaterials[i].tag # m_objectMaterials[j].tag

-----------------------------------------------------------------------------
\* Order of the texture, material and UV-scale calls

\* the uniform states SetShaderTexture can leave, from uniform state u
ShaderTextureOutcomes(u, textureTag) ==
    { ShaderTextureWrites(u, FindTextureSlot(textureTag)) }

\* the uniform state SetTextureUVScale leaves, from uniform state u
TextureUVScaleOutcomes(u, uv) ==
    { [u EXCEPT !["UVscale"] = uv] }

\* the uniform states SetShaderMaterial can leave, from uniform state u:
\* one for each value the local material can hold before FindMaterial
ShaderMaterialOutcomes(u, materialTag) ==
    IF Len(m_objectMaterials) > 0
    THEN { LET r == FindMaterial(materialTag, material)
           IN IF r.ret = TRUE THEN ShaderMaterialWrites(u, r.material) ELSE u :
           material \in IndeterminateMaterials }
    ELSE { u }

BinderCallOrders ==
    { <<"SetShaderTexture", "SetShaderMaterial", "SetTextureUVScale">>,
      <<"SetShaderTexture", "SetTextureUVScale", "SetShaderMaterial">>,
      <<"SetShaderMaterial", "SetShaderTexture", "SetTextureUVScale">>,
      <<"SetShaderMaterial", "SetTextureUVScale", "SetShaderTexture">>,
      <<"SetTextureUVScale", "SetShaderTexture", "SetShaderMaterial">>,
      <<"SetTextureUVScale", "SetShaderMaterial", "SetShaderTexture">> }

UVScaleArguments == { <<1, 1>>, <<4, 2>> }

AfterCall(U, op, textureTag, materialTag, uv) ==
    UNION { CASE op = "SetShaderTexture" -> ShaderTextureOutcomes(u, textureTag)
              [] op = "SetShaderMaterial" -> ShaderMaterialOutcomes(u, materialTag)
              [] op = "SetTextureUVScale" -> TextureUVScaleOutcomes(u, uv) :
            u \in U }

AfterCalls(order, textureTag, materialTag, uv) ==
    AfterCall(AfterCall(AfterCall({uniforms}, order[1], textureTag, materialTag, uv),
                        order[2], textureTag, materialTag, uv),
              order[3], textureTag, materialTag, uv)

\* C16: SetShaderTexture, SetShaderMaterial and SetTextureUVScale commute:
\* from every registry and uniform state and for every choice of arguments,
\* the three calls in any of the six orders end in one and the same uniform
\* state.
C16_BinderCallsCommute ==
    m_pShaderManager # NULL =>
        \A textureTag \in LookupTags, materialTag \in LookupTags,
           uv \in UVScaleArguments :
            Cardinality(UNION { AfterCalls(order, textureTag, materialTag, uv) :
                                order \in BinderCallOrders }) = 1
-----------------------------------------------------------------------------
\* What a CreateGLTexture call leaves in the backend

\* C17: every CreateGLTexture call, whether it succeeds, fails to decode or
\* rejects the channel count, leaves each texture object it generated recorded
\* in exactly one registry entry, leaves no decoded image buffer unfreed and
\* leaves no generated texture bound to GL_TEXTURE_2D.
C17_CreateLeavesNothingBehind ==
    [][ lastCall'.op = "CreateGLTexture" =>
          LET generated == DOMAIN glTextures' \ DOMAIN glTextures
          IN /\ \A n \in generated :
                   Cardinality({ i \in 0..(m_loadedTextures' - 1) :
                                   m_textureIDs'[i].ID = n }) = 1
             /\ imageBuffers' = imageBuffers
             /\ \A n \in generated, unit \in DOMAIN glBoundTexture2D' :
                   glBoundTexture2D'[unit] # n
      ]_vars
-----------------------------------------------------------------------------
\* The lookups of RenderScene after a PrepareScene whose loads all succeed

\* the number of CreateGLTexture calls of PrepareScene
ManifestLoads ==
    Cardinality({k \in 1..Len(PrepareSceneCalls) :
                   PrepareSceneCalls[k].op = "CreateGLTexture"})

\* C18: once PrepareScene has run with every texture load succeeding, the
\* loaded-texture count is at most 16, every SetShaderTexture call of
\* RenderScene names a registered tag and writes a sampler index in
\* 0..count-1, and every SetShaderMaterial call of RenderScene names the tag
\* of a registered material.
C18_RenderLookupsResolve ==
    (pc.fn \in {"RenderScene", "done"} /\ m_loadedTextures = ManifestLoads) =>
        /\ m_loadedTextures <= NumTextureUnits
        /\ lastCall.op = "SetShaderTexture" =>
              /\ Matching(lastCall.args[1]) # {}
              /\ m_pShaderManager # NULL =>
                    uniforms[g_TextureValueName] \in 0..(m_loadedTextures - 1)
        /\ lastCall.op = "SetShaderMaterial" =>
              MatchingMaterials(lastCall.args[1]) # {}

\* all fifteen loads succeeded and RenderScene has selected the last texture
\* of the manifest
C18_Witness ==
    /\ pc.fn = "RenderScene"
    /\ m_loadedTextures = ManifestLoads
    /\ m_loadedTextures = 15
    /\ lastCall.op = "SetShaderTexture"
    /\ lastCall.args[1] = "picture4"
    /\ uniforms[g_TextureValueName] = 14
-----------------------------------------------------------------------------
\* The binder without a shader manager

\* C19: in a SceneManager constructed with a NULL shader manager, each of
\* SetTransformations, SetShaderColor, SetShaderTexture, SetTextureUVScale and
\* SetShaderMaterial, in every registry state, changes nothing and does not
\* dereference the shader manager.
C19_BinderNoOpWithoutShaderManager ==
    [][ (/\ m_pShaderManager = NULL
         /\ lastCall'.op \in {"SetTransformations", "SetShaderColor",
                              "SetShaderTexture", "SetTextureUVScale",
                              "SetShaderMaterial"}) =>
            /\ crashed' = FALSE
            /\ uniforms' = uniforms
            /\ notBinderVars' = notBinderVars
      ]_vars

====
